---- MODULE Spec2Model ----
(***************************************************************************)
(* A model of ascii_agent_hackathon/img_to_ascii.py: the glyph mapper      *)
(* (get_brightness_char), the frame rasterizer (img_to_ascii), the frame   *)
(* interpolator (create_interpolated_frames) and the four playback         *)
(* functions (display_ascii_animation, display_smooth_ascii_animation,     *)
(* display_ultra_smooth_ascii_animation, display_image_animation).         *)
(*                                                                         *)
(* Each component has its own variables and its own specification; the     *)
(* variables of the other components stay at their idle values.            *)
(***************************************************************************)
EXTENDS Integers, Sequences, FiniteSets, TLC

VARIABLES
    \* ---- playback: the arguments of the call
    fn,               \* which playback function is called
    frames,           \* the frame list
    fps,              \* frames per second
    loop,             \* display_ascii_animation's loop flag
    loop_count,       \* the loop count
    clear_terminal,   \* display_ascii_animation's clear_terminal flag
    \* ---- playback: the locals of the call
    pc,               \* the position in the function body
    ascii_frames,     \* the pre-converted frames
    frame_delay,      \* 1.0 / fps, in milliseconds
    loops_completed,  \* passes finished (loop_num of the for-range loops)
    frame_num,        \* 1-based index of the frame being shown
    out,              \* everything done to the terminal, in order
    exc,              \* the exception that left the call, or "none"
    interrupted,      \* whether the KeyboardInterrupt was delivered
    \* ---- playback: the wall clock
    render_ms,        \* how long clearing and writing one frame takes, in ms
    now,              \* the time since the call began, in ms
    starts,           \* the time at which each frame's clear-and-write began
    \* ---- get_brightness_char: one call
    glyph_pc,         \* "idle", "call" (arguments chosen) or "done"
    brightness,       \* the brightness argument
    style,            \* the style argument
    invert,           \* the invert argument
    char_index,       \* the index computed at line 45
    glyph,            \* the character returned, as its code point
    \* ---- create_interpolated_frames: one call
    interp_pc,        \* "idle", "call" (arguments chosen) or "done"
    poses,            \* the keyframes
    frames_between,   \* interpolated frames per pair
    loop_back,        \* whether to interpolate back to the first pose
    all_frames,       \* the list returned
    \* ---- img_to_ascii: one call
    raster_pc,        \* the position in img_to_ascii
    rargs,            \* the arguments that are only read
    ascii_width,      \* the ascii_width argument
    ascii_height,     \* the ascii_height argument, reassigned at line 103
    img,              \* the image being processed
    ascii_ret,        \* what the call returned
    raster_exc,       \* the exception that left the call, or "none"
    \* ---- generate_image: a sequence of calls over one cache directory
    gen_pc,           \* the position in generate_image, "ready" between calls
    prompt,           \* the prompt argument, as its characters
    model,            \* the model argument, as its characters
    use_cache,        \* the use_cache argument
    save_path,        \* whether a save_path was given
    cache_key,        \* the string get_cache_key hashed
    image,            \* the image the call holds (0: none)
    cache,            \* the files of .img_cache: key and image stored
    saved,            \* the image last written to save_path (0: none)
    posts,            \* the HTTP generation requests issued, in order
    calls             \* the calls that have ended, in order

playVars == <<fn, frames, fps, loop, loop_count, clear_terminal, pc, ascii_frames,
              frame_delay, loops_completed, frame_num, out, exc, interrupted,
              render_ms, now, starts>>

\* the wall clock of a playback call
clockVars == <<now, starts>>

glyphVars == <<glyph_pc, brightness, style, invert, char_index, glyph>>

interpVars == <<interp_pc, poses, frames_between, loop_back, all_frames>>

rasterVars == <<raster_pc, rargs, ascii_width, ascii_height, img, ascii_ret, raster_exc>>

genVars == <<gen_pc, prompt, model, use_cache, save_path, cache_key, image, cache,
             saved, posts, calls>>

vars == <<playVars, glyphVars, interpVars, rasterVars, genVars>>

\* what a playback step leaves alone
notPlayVars == <<glyphVars, interpVars, rasterVars, genVars>>

\* what a get_brightness_char step leaves alone
notGlyphVars == <<playVars, interpVars, rasterVars, genVars>>

\* what a create_interpolated_frames step leaves alone
notInterpVars == <<playVars, glyphVars, rasterVars, genVars>>

\* what an img_to_ascii step leaves alone
notRasterVars == <<playVars, glyphVars, interpVars, genVars>>

\* what a generate_image step leaves alone
notGenVars == <<playVars, glyphVars, interpVars, rasterVars>>

-----------------------------------------------------------------------------
(* Bounds of the model *)

\* longest frame list tried
MaxFrames == 2

\* calls of generate_image followed
MaxCalls == 3

\* passes after which the model stops following a playback
MaxPasses == 3

\* longest keyframe list tried
MaxPoses == 3

\* largest frames_between tried
MaxBetween == 2

\* largest width and height of a source image tried
MaxDim == 3

\* largest ascii_width and ascii_height tried
MaxAscii == 3

-----------------------------------------------------------------------------
(* Playback *)

Images == {"A", "B"}

SeqsUpTo(S, n) == UNION {[1..m -> S] : m \in 0..n}

FrameLists == SeqsUpTo(Images, MaxFrames)

\* fps values: negative, zero, slow, and faster than 100 fps
FpsValues == {-2, 0, 5, 200}

LoopCounts == {-1, 0, 1, 2, 100}

Functions == {"ascii", "smooth", "ultra", "image"}

\* time.sleep and 1.0 / fps are kept in whole milliseconds
MsPerSecond == 1000

\* the floor of the inter-frame sleep in display_ascii_animation: max(0.01, ...)
MinDelayMs == 10

\* time.sleep(0.5) before display_ascii_animation starts
AsciiPauseMs == 500

\* time.sleep(1) before the smooth and ultra-smooth playbacks start
SmoothPauseMs == 1000

\* the time one clear-and-write of a frame can take, in ms: the terminal or
\* notebook output is immediate, or it is slower than the 10 ms floor
RenderCosts == {0, 20}

Max2(a, b) == IF a >= b THEN a ELSE b

Min2(a, b) == IF a <= b THEN a ELSE b

Ev(kind, arg) == <<kind, arg>>

\* the functions that wrap their loop in try / except KeyboardInterrupt
HasTry(f) == f \in {"ascii", "smooth", "ultra"}

\* the positions inside the try block
TryRegion == {"try", "loophead", "clear", "write", "sleep", "endpass", "final"}

\* the positions before the try block (or, for display_image_animation, all of them)
PreRegion == {"convert", "presleep", "delay"}

Terminal == {"returned", "completed", "cancelled", "raised"}

\* no playback call is under way
PlayIdle ==
    /\ fn = "none" /\ frames = <<>> /\ fps = 0 /\ loop = FALSE /\ loop_count = 0
    /\ clear_terminal = FALSE /\ pc = "idle" /\ ascii_frames = <<>>
    /\ frame_delay = 0 /\ loops_completed = 0 /\ frame_num = 0 /\ out = <<>>
    /\ exc = "none" /\ interrupted = FALSE
    /\ render_ms = 0 /\ now = 0 /\ starts = <<>>

PlayInit ==
    /\ fn \in Functions
    /\ frames \in FrameLists
    /\ fps \in FpsValues
    /\ loop_count \in LoopCounts
    /\ loop \in (IF fn = "ascii" THEN BOOLEAN ELSE {TRUE})
    /\ clear_terminal \in (IF fn = "ascii" THEN BOOLEAN ELSE {fn # "image"})
    /\ pc = "start"
    /\ ascii_frames = <<>>
    /\ frame_delay = 0
    /\ loops_completed = 0
    /\ frame_num = 0
    /\ out = <<>>
    /\ exc = "none"
    /\ interrupted = FALSE
    /\ render_ms \in RenderCosts
    /\ now = 0
    /\ starts = <<>>

\* CheckEmpty without the early return: the call goes on with an empty list
CheckEmpty_NoReturn ==
    /\ pc = "start"
    /\ pc' = IF fn = "image" THEN "delay" ELSE "convert"
    /\ UNCHANGED <<render_ms, fn, frames, fps, loop, loop_count, clear_terminal, ascii_frames,
                   frame_delay, loops_completed, frame_num, out, exc, interrupted>>
    /\ UNCHANGED clockVars
    /\ UNCHANGED notPlayVars

\* if not frames: print("No frames to animate!"); return
CheckEmpty ==
    /\ pc = "start"
    /\ IF frames = <<>>
       THEN /\ out' = Append(out, Ev("msg_no_frames", 0))
            /\ pc' = "returned"
       ELSE /\ out' = out
            /\ pc' = IF fn = "image" THEN "delay" ELSE "convert"
    /\ UNCHANGED <<render_ms, fn, frames, fps, loop, loop_count, clear_terminal, ascii_frames,
                   frame_delay, loops_completed, frame_num, exc, interrupted>>
    /\ UNCHANGED clockVars
    /\ UNCHANGED notPlayVars

\* the pre-conversion loop: one img_to_ascii call per frame, in list order
Convert ==
    /\ pc = "convert"
    /\ ascii_frames' = [i \in 1..Len(frames) |-> <<"ascii", frames[i]>>]
    /\ out' = out \o [i \in 1..Len(frames) |-> Ev("rasterize", i)]
    /\ pc' = IF fn = "ascii" THEN "presleep" ELSE "delay"
    /\ UNCHANGED <<render_ms, fn, frames, fps, loop, loop_count, clear_terminal,
                   frame_delay, loops_completed, frame_num, exc, interrupted>>
    /\ UNCHANGED clockVars
    /\ UNCHANGED notPlayVars

\* time.sleep(0.5) / time.sleep(1) before playback starts
PreSleep ==
    /\ pc = "presleep"
    /\ out' = Append(out, Ev("sleep", IF fn = "ascii" THEN AsciiPauseMs ELSE SmoothPauseMs))
    /\ pc' = IF fn = "ascii" THEN "delay" ELSE "try"
    /\ UNCHANGED <<render_ms, fn, frames, fps, loop, loop_count, clear_terminal, ascii_frames,
                   frame_delay, loops_completed, frame_num, exc, interrupted>>
    /\ now' = now + (IF fn = "ascii" THEN AsciiPauseMs ELSE SmoothPauseMs)
    /\ UNCHANGED starts
    /\ UNCHANGED notPlayVars

\* frame_delay = 1.0 / fps, outside the try block
ComputeDelay ==
    /\ pc = "delay"
    /\ IF fps = 0
       THEN /\ pc' = "raised"
            /\ exc' = "ZeroDivisionError"
            /\ frame_delay' = frame_delay
       ELSE /\ frame_delay' = MsPerSecond \div fps
            /\ exc' = exc
            /\ pc' = CASE fn = "ascii" -> "try"
                       [] fn = "image" -> "loophead"
                       [] OTHER -> "presleep"
    /\ UNCHANGED <<render_ms, fn, frames, fps, loop, loop_count, clear_terminal, ascii_frames,
                   loops_completed, frame_num, out, interrupted>>
    /\ UNCHANGED clockVars
    /\ UNCHANGED notPlayVars

\* entering the try block; the ultra-smooth playback hides the cursor first
EnterTry ==
    /\ pc = "try"
    /\ out' = IF fn = "ultra" THEN Append(out, Ev("hide_cursor", 0)) ELSE out
    /\ pc' = "loophead"
    /\ UNCHANGED <<render_ms, fn, frames, fps, loop, loop_count, clear_terminal, ascii_frames,
                   frame_delay, loops_completed, frame_num, exc, interrupted>>
    /\ UNCHANGED clockVars
    /\ UNCHANGED notPlayVars

\* StartPass as a do-while: the first pass is played whatever loop_count is
StartPass_AtLeastOnce ==
    /\ pc = "loophead"
    /\ IF fn = "ascii" \/ loops_completed = 0 \/ loops_completed < loop_count
       THEN /\ loops_completed < MaxPasses
            /\ frame_num' = 1
            /\ pc' = IF fn = "image" THEN "write" ELSE "clear"
       ELSE /\ frame_num' = frame_num
            /\ pc' = "final"
    /\ UNCHANGED <<render_ms, fn, frames, fps, loop, loop_count, clear_terminal, ascii_frames,
                   frame_delay, loops_completed, out, exc, interrupted>>
    /\ UNCHANGED clockVars
    /\ UNCHANGED notPlayVars

\* while True (display_ascii_animation) or for loop_num in range(loop_count)
StartPass ==
    /\ pc = "loophead"
    /\ IF fn = "ascii" \/ loops_completed < loop_count
       THEN /\ loops_completed < MaxPasses
            /\ frame_num' = 1
            /\ pc' = IF fn = "image" THEN "write" ELSE "clear"
       ELSE /\ frame_num' = frame_num
            /\ pc' = "final"
    /\ UNCHANGED <<render_ms, fn, frames, fps, loop, loop_count, clear_terminal, ascii_frames,
                   frame_delay, loops_completed, out, exc, interrupted>>
    /\ UNCHANGED clockVars
    /\ UNCHANGED notPlayVars

\* os.system("clear"), clear_output(wait=True) or CLEAR_SCREEN + MOVE_CURSOR_HOME
ClearScreen ==
    /\ pc = "clear"
    /\ out' = Append(out, Ev("clear", 0))
    /\ pc' = "write"
    /\ UNCHANGED <<render_ms, fn, frames, fps, loop, loop_count, clear_terminal, ascii_frames,
                   frame_delay, loops_completed, frame_num, exc, interrupted>>
    /\ starts' = Append(starts, now)
    /\ UNCHANGED now
    /\ UNCHANGED notPlayVars

\* WriteFrame taking the frames from the end of the list
WriteFrame_Reversed ==
    /\ pc = "write"
    /\ out' = Append(out, Ev("frame", Len(frames) + 1 - frame_num))
    /\ pc' = "sleep"
    /\ UNCHANGED <<render_ms, fn, frames, fps, loop, loop_count, clear_terminal, ascii_frames,
                   frame_delay, loops_completed, frame_num, exc, interrupted>>
    /\ starts' = IF fn = "image" THEN Append(starts, now) ELSE starts
    /\ now' = now + render_ms
    /\ UNCHANGED notPlayVars

\* print(ascii_frame, ...) or display(frame), with the info or header line
\* printed before it (lines 218-220, 303-304, 389, 630)
WriteFrame ==
    /\ pc = "write"
    /\ out' = Append(out, Ev("frame", frame_num))
    /\ pc' = "sleep"
    /\ UNCHANGED <<render_ms, fn, frames, fps, loop, loop_count, clear_terminal, ascii_frames,
                   frame_delay, loops_completed, frame_num, exc, interrupted>>
    /\ starts' = IF fn = "image" THEN Append(starts, now) ELSE starts
    /\ now' = now + render_ms
    /\ UNCHANGED notPlayVars

\* SleepArg shortened by the time the frame took to clear and write
SleepArg_Compensated ==
    Max2(0, (IF fn = "ascii" THEN Max2(MinDelayMs, frame_delay) ELSE frame_delay)
              - render_ms)

\* SleepArg without the 10 ms floor of display_ascii_animation
SleepArg_NoFloor == frame_delay

\* the argument of the inter-frame time.sleep
SleepArg == IF fn = "ascii" THEN Max2(MinDelayMs, frame_delay) ELSE frame_delay

\* time.sleep(...), which raises ValueError for a negative length, then the
\* for loop's step to the next frame
SleepFrame ==
    /\ pc = "sleep"
    /\ IF SleepArg < 0
       THEN /\ pc' = "raised"
            /\ exc' = "ValueError"
            /\ UNCHANGED <<out, frame_num, now>>
       ELSE /\ out' = Append(out, Ev("sleep", SleepArg))
            /\ now' = now + SleepArg
            /\ exc' = exc
            /\ IF frame_num < Len(frames)
               THEN /\ frame_num' = frame_num + 1
                    /\ pc' = IF fn = "image" THEN "write" ELSE "clear"
               ELSE /\ frame_num' = frame_num
                    /\ pc' = "endpass"
    /\ UNCHANGED <<render_ms, fn, frames, fps, loop, loop_count, clear_terminal, ascii_frames,
                   frame_delay, loops_completed, interrupted>>
    /\ UNCHANGED starts
    /\ UNCHANGED notPlayVars

\* BreakCondition without the "not loop" disjunct
BreakCondition_IgnoresLoop(done) == loop_count > 0 /\ done >= loop_count

\* BreakCondition with loop_count >= 0 in place of loop_count > 0
BreakCondition_ZeroCounts(done) == ~loop \/ (loop_count >= 0 /\ done >= loop_count)

\* the break condition of display_ascii_animation's while True
BreakCondition(done) == ~loop \/ (loop_count > 0 /\ done >= loop_count)

\* loops_completed += 1 and the break test; the next loop_num of a for-range loop
EndPass ==
    /\ pc = "endpass"
    /\ loops_completed' = loops_completed + 1
    /\ pc' = IF fn = "ascii" /\ BreakCondition(loops_completed + 1)
             THEN "final" ELSE "loophead"
    /\ UNCHANGED <<render_ms, fn, frames, fps, loop, loop_count, clear_terminal, ascii_frames,
                   frame_delay, frame_num, out, exc, interrupted>>
    /\ UNCHANGED clockVars
    /\ UNCHANGED notPlayVars

\* what the function writes after its loops: final clear, cursor, completion message
FinalOutput ==
    CASE fn = "ascii" ->
           (IF clear_terminal THEN <<>> ELSE <<Ev("clear", 0)>>)
             \o <<Ev("msg_complete", loops_completed)>>
      [] fn = "smooth" -> <<Ev("clear", 0), Ev("msg_complete", loop_count)>>
      [] fn = "ultra" ->
           <<Ev("clear", 0), Ev("show_cursor", 0), Ev("msg_complete", loop_count)>>
      [] OTHER -> <<Ev("msg_complete", 0)>>

Finish ==
    /\ pc = "final"
    /\ out' = out \o FinalOutput
    /\ pc' = "completed"
    /\ UNCHANGED <<render_ms, fn, frames, fps, loop, loop_count, clear_terminal, ascii_frames,
                   frame_delay, loops_completed, frame_num, exc, interrupted>>
    /\ UNCHANGED clockVars
    /\ UNCHANGED notPlayVars

\* Interrupt held back until the frame being shown has been written
Interrupt_AtBoundary ==
    /\ ~interrupted
    /\ pc \in (TryRegion \cup PreRegion) \ {"write"}
    /\ interrupted' = TRUE
    /\ IF HasTry(fn) /\ pc \in TryRegion
       THEN /\ pc' = "handler"
            /\ exc' = exc
       ELSE /\ pc' = "raised"
            /\ exc' = "KeyboardInterrupt"
    /\ UNCHANGED <<render_ms, fn, frames, fps, loop, loop_count, clear_terminal, ascii_frames,
                   frame_delay, loops_completed, frame_num, out>>
    /\ UNCHANGED clockVars
    /\ UNCHANGED notPlayVars

\* Interrupt without the except clause: the exception always leaves the call
Interrupt_Propagates ==
    /\ ~interrupted
    /\ pc \in TryRegion \cup PreRegion
    /\ interrupted' = TRUE
    /\ IF FALSE
       THEN /\ pc' = "handler"
            /\ exc' = exc
       ELSE /\ pc' = "raised"
            /\ exc' = "KeyboardInterrupt"
    /\ UNCHANGED <<render_ms, fn, frames, fps, loop, loop_count, clear_terminal, ascii_frames,
                   frame_delay, loops_completed, frame_num, out>>
    /\ UNCHANGED clockVars
    /\ UNCHANGED notPlayVars

\* a KeyboardInterrupt is delivered: inside a try block control moves to the
\* except clause, anywhere else the exception leaves the call
Interrupt ==
    /\ ~interrupted
    /\ pc \in TryRegion \cup PreRegion
    /\ interrupted' = TRUE
    /\ IF HasTry(fn) /\ pc \in TryRegion
       THEN /\ pc' = "handler"
            /\ exc' = exc
       ELSE /\ pc' = "raised"
            /\ exc' = "KeyboardInterrupt"
    /\ UNCHANGED <<render_ms, fn, frames, fps, loop, loop_count, clear_terminal, ascii_frames,
                   frame_delay, loops_completed, frame_num, out>>
    /\ UNCHANGED clockVars
    /\ UNCHANGED notPlayVars

\* what the except KeyboardInterrupt clause writes
HandlerOutput ==
    CASE fn = "ascii" ->
           (IF clear_terminal THEN <<>> ELSE <<Ev("clear", 0)>>)
             \o <<Ev("msg_interrupted", 0)>>
      [] fn = "smooth" -> <<Ev("clear", 0), Ev("msg_interrupted", 0)>>
      [] OTHER -> <<Ev("clear", 0), Ev("show_cursor", 0), Ev("msg_interrupted", 0)>>

HandleInterrupt ==
    /\ pc = "handler"
    /\ out' = out \o HandlerOutput
    /\ pc' = "cancelled"
    /\ UNCHANGED <<render_ms, fn, frames, fps, loop, loop_count, clear_terminal, ascii_frames,
                   frame_delay, loops_completed, frame_num, exc, interrupted>>
    /\ UNCHANGED clockVars
    /\ UNCHANGED notPlayVars

PlayNext ==
    \/ CheckEmpty
    \/ Convert
    \/ PreSleep
    \/ ComputeDelay
    \/ EnterTry
    \/ StartPass
    \/ ClearScreen
    \/ WriteFrame
    \/ SleepFrame
    \/ EndPass
    \/ Finish
    \/ Interrupt
    \/ HandleInterrupt


-----------------------------------------------------------------------------
(* get_brightness_char *)

\* the ramps, as sequences of code points
\* " ░▒▓█"
BlockChars == <<32, 9617, 9618, 9619, 9608>>

\* " .:-=+*#%@"
AsciiChars == <<32, 46, 58, 45, 61, 43, 42, 35, 37, 64>>

\* " .·:¦+*#%@█"
MixedChars == <<32, 46, 183, 58, 166, 43, 42, 35, 37, 64, 9608>>

\* the divisor of line 45: brightness * len(ascii_chars) // 256
GrayLevels == 256

\* the largest brightness value
MaxBrightness == 255

Styles == {"blocks", "ascii", "mixed"}

\* s[::-1]
Reverse(s) == [i \in 1..Len(s) |-> s[Len(s) + 1 - i]]

\* the if / elif / else of lines 31-40
RampOf(st) ==
    IF st = "blocks" THEN BlockChars
    ELSE IF st = "ascii" THEN AsciiChars
    ELSE MixedChars

\* AsciiCharsOf without the reversal of lines 42-43
AsciiCharsOf_NoInvert(st, inv) == RampOf(st)

\* lines 42-43
AsciiCharsOf(st, inv) == IF inv THEN Reverse(RampOf(st)) ELSE RampOf(st)

\* CharIndex dividing by 255 in place of 256
CharIndex_Div255(b, st, inv) ==
    Min2((b * Len(AsciiCharsOf(st, inv))) \div MaxBrightness,
         Len(AsciiCharsOf(st, inv)) - 1)

\* line 45
CharIndex(b, st, inv) ==
    Min2((b * Len(AsciiCharsOf(st, inv))) \div GrayLevels, Len(AsciiCharsOf(st, inv)) - 1)

\* line 46 (Python indexes from 0, TLA+ from 1)
GetBrightnessChar(b, st, inv) == AsciiCharsOf(st, inv)[CharIndex(b, st, inv) + 1]

GlyphIdle ==
    /\ glyph_pc = "idle" /\ brightness = 0 /\ style = "none" /\ invert = FALSE
    /\ char_index = 0 /\ glyph = 0

GlyphInit ==
    /\ glyph_pc = "call"
    /\ brightness \in 0..MaxBrightness
    /\ style \in Styles
    /\ invert \in BOOLEAN
    /\ char_index = 0
    /\ glyph = 0

GlyphCall ==
    /\ glyph_pc = "call"
    /\ char_index' = CharIndex(brightness, style, invert)
    /\ glyph' = GetBrightnessChar(brightness, style, invert)
    /\ glyph_pc' = "done"
    /\ UNCHANGED <<brightness, style, invert>>
    /\ UNCHANGED notGlyphVars

GlyphNext == GlyphCall

-----------------------------------------------------------------------------
(* interpolate_images and create_interpolated_frames *)

PoseNames == {"A", "B", "C"}

\* a keyframe image, as supplied by the caller
Pose(id) == [kind |-> "pose", a |-> id, b |-> id, num |-> 0, den |-> 1]

PoseImages == {Pose(id) : id \in PoseNames}

\* interpolate_images(img1, img2, alpha) with alpha = num / den: the image
\* Image.blend returns, named by the two images (the keyframes they are)
\* and the mixing factor
InterpolateImages(img1, img2, num, den) ==
    [kind |-> "blend", a |-> img1.a, b |-> img2.a, num |-> num, den |-> den]

\* lines 477-483: the consecutive pairs, then (last, first) when loop_back
PosePairs(ps, lb) ==
    [i \in 1..(Len(ps) - 1) |-> <<ps[i], ps[i + 1]>>]
        \o (IF lb THEN <<<<ps[Len(ps)], ps[1]>>>> ELSE <<>>)

\* PairFrames with alpha = frame_num / frames_between
PairFrames_AlphaOverK(start_pose, end_pose, k) ==
    <<start_pose>> \o [j \in 1..k |-> InterpolateImages(start_pose, end_pose, j, k)]

\* lines 498-505: the starting pose, then range(1, frames_between + 1)
PairFrames(start_pose, end_pose, k) ==
    <<start_pose>> \o [j \in 1..k |-> InterpolateImages(start_pose, end_pose, j, k + 1)]

RECURSIVE AllPairFrames(_, _)
\* lines 494-505: the loop over pose_pairs
AllPairFrames(pairs, k) ==
    IF pairs = <<>> THEN <<>>
    ELSE PairFrames(Head(pairs)[1], Head(pairs)[2], k) \o AllPairFrames(Tail(pairs), k)

\* lines 507-517: the closing frame
FinalFrame(ps, lb) == IF lb THEN ps[1] ELSE ps[Len(ps)]

\* CreateInterpolatedFrames without the closing frame of lines 507-517
CreateInterpolatedFrames_NoClosing(ps, k, lb) ==
    IF Len(ps) < 2 THEN ps
    ELSE AllPairFrames(PosePairs(ps, lb), k)

\* CreateInterpolatedFrames returning early only for an empty list
CreateInterpolatedFrames_OnePose(ps, k, lb) ==
    IF Len(ps) < 1 THEN ps
    ELSE AllPairFrames(PosePairs(ps, lb), k) \o <<FinalFrame(ps, lb)>>

\* create_interpolated_frames
CreateInterpolatedFrames(ps, k, lb) ==
    IF Len(ps) < 2 THEN ps
    ELSE AllPairFrames(PosePairs(ps, lb), k) \o <<FinalFrame(ps, lb)>>

InterpIdle ==
    /\ interp_pc = "idle" /\ poses = <<>> /\ frames_between = 0
    /\ loop_back = FALSE /\ all_frames = <<>>

InterpInit ==
    /\ interp_pc = "call"
    /\ poses \in SeqsUpTo(PoseImages, MaxPoses)
    /\ frames_between \in (-1)..MaxBetween
    /\ loop_back \in BOOLEAN
    /\ all_frames = <<>>

InterpCall ==
    /\ interp_pc = "call"
    /\ all_frames' = CreateInterpolatedFrames(poses, frames_between, loop_back)
    /\ interp_pc' = "done"
    /\ UNCHANGED <<poses, frames_between, loop_back>>
    /\ UNCHANGED notInterpVars

InterpNext == InterpCall

-----------------------------------------------------------------------------
(* adjust_brightness and img_to_ascii *)

\* int(x) for x = n / d with d > 0: truncation toward zero
Trunc(n, d) == IF n >= 0 THEN n \div d ELSE -((-n) \div d)

\* factors (brightness_boost, contrast_boost) are kept in tenths: 10 is 1.0
Tenths == 10

\* brightness_boost * 0.7 at lines 128-132, in hundredths of a tenth
ColorFactor == 7

\* min(255, max(0, int(value * factor))), factor = num / den
AdjustBrightness(value, num, den) ==
    Min2(MaxBrightness, Max2(0, Trunc(value * num, den)))

\* what img_source can be: a path that opens and decodes, a path that does
\* not open, a path that opens but whose pixel data cannot be decoded, an
\* Image object, or a value that is neither a path nor an image
\* what img_source can be: a path to a readable image file, a path that
\* does not open, a path to a file that is not an image, a path to an image
\* file whose header reads but whose pixel data does not, an Image, or a
\* value of another type
Sources == {"path", "missing_path", "unidentified_path", "truncated_path",
            "image", "other"}

GrayValues == {0, 100, 255}

BoostValues == {5, 10, 15}

ContrastValues == {10, 12}

\* a solid gray image of the given size; decodable is whether its pixel
\* data can be loaded
ImageOf(w, h, g, ok) == [width |-> w, height |-> h, gray |-> g, decodable |-> ok]

NoImage == ImageOf(0, 0, 0, FALSE)

NoReturn == [kind |-> "none", text |-> <<>>]

Tok(kind, arg) == <<kind, arg>>

DefaultArgs ==
    [img_source |-> "image", orig_width |-> 1, orig_height |-> 1, gray |-> 0,
     colored |-> TRUE, preserve_aspect_ratio |-> TRUE, char_style |-> "mixed",
     brightness_boost |-> 15, contrast_boost |-> 12, invert_chars |-> FALSE]

RasterArgs ==
    [img_source : {"path", "image", "truncated_path"},
     orig_width : 1..MaxDim, orig_height : 1..MaxDim, gray : GrayValues,
     colored : BOOLEAN, preserve_aspect_ratio : BOOLEAN,
     char_style : {"ascii"}, brightness_boost : BoostValues,
     contrast_boost : ContrastValues, invert_chars : {FALSE}]
    \cup
    [img_source : {"path", "image"},
     orig_width : {2}, orig_height : {2}, gray : {255},
     colored : BOOLEAN, preserve_aspect_ratio : BOOLEAN,
     char_style : Styles, brightness_boost : {10, 15},
     contrast_boost : {12}, invert_chars : BOOLEAN]
    \cup
    {[DefaultArgs EXCEPT !.img_source = src] : src \in {"missing_path", "unidentified_path", "other"}}

RasterIdle ==
    /\ raster_pc = "idle" /\ rargs = DefaultArgs /\ ascii_width = 0
    /\ ascii_height = 0 /\ img = NoImage /\ ascii_ret = NoReturn
    /\ raster_exc = "none"

RasterInit ==
    /\ raster_pc = "open"
    /\ rargs \in RasterArgs
    /\ ascii_width \in (-1)..MaxAscii
    /\ ascii_height \in 0..MaxAscii
    /\ img = NoImage
    /\ ascii_ret = NoReturn
    /\ raster_exc = "none"

\* lines 77-85: Image.open reads the header only; what it raises is caught
RasterOpen ==
    /\ raster_pc = "open"
    /\ CASE rargs.img_source \in {"path", "image"} ->
              /\ img' = ImageOf(rargs.orig_width, rargs.orig_height, rargs.gray, TRUE)
              /\ raster_pc' = "enhance"
              /\ ascii_ret' = ascii_ret
         [] rargs.img_source = "truncated_path" ->
              /\ img' = ImageOf(rargs.orig_width, rargs.orig_height, rargs.gray, FALSE)
              /\ raster_pc' = "enhance"
              /\ ascii_ret' = ascii_ret
         [] rargs.img_source \in {"missing_path", "unidentified_path"} ->
              /\ ascii_ret' = [kind |-> "error", text |-> <<Tok("error_opening_image", 0)>>]
              /\ raster_pc' = "returned"
              /\ img' = img
         [] OTHER ->
              /\ ascii_ret' = [kind |-> "error", text |-> <<Tok("invalid_source_type", 0)>>]
              /\ raster_pc' = "returned"
              /\ img' = img
    /\ UNCHANGED <<rargs, ascii_width, ascii_height, raster_exc>>
    /\ UNCHANGED notRasterVars

\* lines 87-94: ImageEnhance.Brightness scales every channel and clips;
\* ImageEnhance.Contrast moves every pixel away from the mean, which leaves
\* a solid image as it is; both load the pixel data
RasterEnhance ==
    /\ raster_pc = "enhance"
    /\ IF (rargs.brightness_boost # Tenths \/ rargs.contrast_boost # Tenths)
          /\ ~img.decodable
       THEN /\ raster_pc' = "raised"
            /\ raster_exc' = "OSError"
            /\ img' = img
       ELSE /\ img' = IF rargs.brightness_boost # Tenths
                      THEN [img EXCEPT !.gray =
                               AdjustBrightness(img.gray, rargs.brightness_boost, Tenths)]
                      ELSE img
            /\ raster_pc' = "size"
            /\ raster_exc' = raster_exc
    /\ UNCHANGED <<rargs, ascii_width, ascii_height, ascii_ret>>
    /\ UNCHANGED notRasterVars

\* RasterHeight with round() in place of int(): halves go to the even neighbour
RasterHeight_Rounds(w, ow, oh) ==
    LET q == (w * oh) \div (2 * ow)
        r == (w * oh) % (2 * ow)
    IN  IF r > ow \/ (r = ow /\ q % 2 = 1) THEN q + 1 ELSE q

\* lines 102-105: int(ascii_width * (orig_height / orig_width) * 0.5)
RasterHeight(w, ow, oh) == Trunc(w * oh, 2 * ow)

\* RasterSize without the aspect-ratio branch: the height stays as passed
RasterSize_IgnoresAspect ==
    /\ raster_pc = "size"
    /\ ascii_height' = ascii_height
    /\ raster_pc' = "resize"
    /\ UNCHANGED <<rargs, ascii_width, img, ascii_ret, raster_exc>>
    /\ UNCHANGED notRasterVars

\* lines 96-105
RasterSize ==
    /\ raster_pc = "size"
    /\ ascii_height' = IF rargs.preserve_aspect_ratio
                       THEN RasterHeight(ascii_width, img.width, img.height)
                       ELSE ascii_height
    /\ raster_pc' = "resize"
    /\ UNCHANGED <<rargs, ascii_width, img, ascii_ret, raster_exc>>
    /\ UNCHANGED notRasterVars

\* lines 107-114: Image.resize loads the pixel data, and raises ValueError
\* ("height and width must be > 0") for a target size below 1 x 1
RasterResize ==
    /\ raster_pc = "resize"
    /\ CASE ~img.decodable ->
              /\ raster_pc' = "raised"
              /\ raster_exc' = "OSError"
              /\ img' = img
         [] ascii_width < 1 \/ ascii_height < 1 ->
              /\ raster_pc' = "raised"
              /\ raster_exc' = "ValueError"
              /\ img' = img
         [] OTHER ->
              /\ img' = [img EXCEPT !.width = ascii_width, !.height = ascii_height]
              /\ raster_pc' = "render"
              /\ raster_exc' = raster_exc
    /\ UNCHANGED <<rargs, ascii_width, ascii_height, ascii_ret>>
    /\ UNCHANGED notRasterVars

\* lines 121-136: one pixel
PixelTokens ==
    LET ch == Tok("char", GetBrightnessChar(img.gray, rargs.char_style, rargs.invert_chars))
        c == IF rargs.brightness_boost > Tenths
             THEN AdjustBrightness(img.gray, rargs.brightness_boost * ColorFactor,
                                   Tenths * Tenths)
             ELSE img.gray
    IN  IF rargs.colored THEN <<Tok("color", c), ch>> ELSE <<ch>>

RECURSIVE Repeat(_, _)
Repeat(s, n) == IF n <= 0 THEN <<>> ELSE s \o Repeat(s, n - 1)

\* lines 119-141: one row
RowTokens ==
    Repeat(PixelTokens, ascii_width)
        \o (IF rargs.colored THEN <<Tok("reset", 0)>> ELSE <<>>)
        \o <<Tok("newline", 0)>>

\* lines 116-147
RasterRender ==
    /\ raster_pc = "render"
    /\ ascii_ret' = [kind |-> "ascii",
                     text |-> Repeat(RowTokens, ascii_height)
                                \o (IF rargs.colored THEN <<Tok("reset", 0)>> ELSE <<>>)]
    /\ raster_pc' = "returned"
    /\ UNCHANGED <<rargs, ascii_width, ascii_height, img, raster_exc>>
    /\ UNCHANGED notRasterVars

RasterNext ==
    \/ RasterOpen
    \/ RasterEnhance
    \/ RasterSize
    \/ RasterResize
    \/ RasterRender

-----------------------------------------------------------------------------
(* generate_image and its cache (LLM_gateway.py)                            *)
(*                                                                         *)
(* Strings are sequences of characters, so that the f-string of            *)
(* get_cache_key is the concatenation it is.  md5 is taken to be            *)
(* one-to-one on the strings tried: the key is the string hashed.           *)

Prompts == {<<"a">>, <<"a", ":", "b">>}

Models == {<<"m">>, <<"b", ":", "m">>}

\* what the gateway answers: a response with an image, a response without
\* images, or an HTTP error status
Responses == {"image", "no_images", "http_error"}

\* get_cache_key: md5 of f"{prompt}:{model}"
GetCacheKey(p, m) == p \o <<":">> \o m

\* cache_path.exists()
CachePathExists(key) == \E f \in cache : f.key = key

\* Image.open(cache_path)
CachedImage(key) == (CHOOSE f \in cache : f.key = key).image

\* image.save(cache_path): the file of that key is created or replaced
SaveToCache(key, im) == {f \in cache : f.key # key} \cup {[key |-> key, image |-> im]}

\* the record of a call that has ended
CallRecord(requested, from_cache, stored, returned, im) ==
    [prompt |-> prompt, model |-> model, use_cache |-> use_cache,
     requested |-> requested, from_cache |-> from_cache, stored |-> stored,
     returned |-> returned, image |-> im]

\* no call of generate_image is under way and none is followed
GenIdle ==
    /\ gen_pc = "idle" /\ prompt = <<>> /\ model = <<>> /\ use_cache = FALSE
    /\ save_path = FALSE /\ cache_key = <<>> /\ image = 0 /\ cache = {}
    /\ saved = 0 /\ posts = <<>> /\ calls = <<>>

\* an empty cache directory, before the first call
GenInit ==
    /\ gen_pc = "ready" /\ prompt = <<>> /\ model = <<>> /\ use_cache = FALSE
    /\ save_path = FALSE /\ cache_key = <<>> /\ image = 0 /\ cache = {}
    /\ saved = 0 /\ posts = <<>> /\ calls = <<>>

\* lines 50-71: a call, and its cache key
GenerateImage ==
    /\ gen_pc = "ready"
    /\ Len(calls) < MaxCalls
    /\ \E p \in Prompts, m \in Models :
          /\ prompt' = p
          /\ model' = m
          /\ cache_key' = GetCacheKey(p, m)
    /\ use_cache' \in BOOLEAN
    /\ save_path' \in BOOLEAN
    /\ image' = 0
    /\ gen_pc' = "lookup"
    /\ UNCHANGED <<cache, saved, posts, calls>>
    /\ UNCHANGED notGenVars

\* lines 73-81: the cached image is returned when use_cache is set and the
\* file of the key exists
CacheLookup ==
    /\ gen_pc = "lookup"
    /\ IF use_cache /\ CachePathExists(cache_key)
       THEN /\ image' = CachedImage(cache_key)
            /\ saved' = IF save_path THEN CachedImage(cache_key) ELSE saved
            /\ calls' = Append(calls, CallRecord(FALSE, TRUE, FALSE, "image",
                                                 CachedImage(cache_key)))
            /\ gen_pc' = "ready"
       ELSE /\ gen_pc' = "post"
            /\ UNCHANGED <<image, saved, calls>>
    /\ UNCHANGED <<prompt, model, use_cache, save_path, cache_key, cache, posts>>
    /\ UNCHANGED notGenVars

\* lines 83-106: requests.post, raise_for_status, and the images of the answer
PostRequest ==
    /\ gen_pc = "post"
    /\ posts' = Append(posts, <<prompt, model>>)
    /\ \E response \in Responses :
          CASE response = "http_error" ->
                 /\ calls' = Append(calls, CallRecord(TRUE, FALSE, FALSE, "raised", 0))
                 /\ gen_pc' = "ready"
                 /\ image' = image
            [] response = "no_images" ->
                 /\ calls' = Append(calls, CallRecord(TRUE, FALSE, FALSE, "none", 0))
                 /\ gen_pc' = "ready"
                 /\ image' = image
            [] OTHER ->
                 /\ image' = Len(posts) + 1
                 /\ gen_pc' = "store"
                 /\ calls' = calls
    /\ UNCHANGED <<prompt, model, use_cache, save_path, cache_key, cache, saved>>
    /\ UNCHANGED notGenVars

\* lines 108-124: the image is saved to the cache when use_cache is set,
\* saved to save_path when given, and returned
StoreAndReturn ==
    /\ gen_pc = "store"
    /\ cache' = IF use_cache THEN SaveToCache(cache_key, image) ELSE cache
    /\ saved' = IF save_path THEN image ELSE saved
    /\ calls' = Append(calls, CallRecord(TRUE, FALSE, use_cache, "image", image))
    /\ gen_pc' = "ready"
    /\ UNCHANGED <<prompt, model, use_cache, save_path, cache_key, image, posts>>
    /\ UNCHANGED notGenVars

GenNext ==
    \/ GenerateImage
    \/ CacheLookup
    \/ PostRequest
    \/ StoreAndReturn

-----------------------------------------------------------------------------
(* Specifications *)

Init == PlayInit /\ GlyphIdle /\ InterpIdle /\ RasterIdle /\ GenIdle

Next == PlayNext

\* the playback functions
Spec == Init /\ [][Next]_vars

InitGlyph == GlyphInit /\ PlayIdle /\ InterpIdle /\ RasterIdle /\ GenIdle

\* get_brightness_char
SpecGlyph == InitGlyph /\ [][GlyphNext]_vars

InitInterp == InterpInit /\ PlayIdle /\ GlyphIdle /\ RasterIdle /\ GenIdle

\* create_interpolated_frames
SpecInterp == InitInterp /\ [][InterpNext]_vars

InitRaster == RasterInit /\ PlayIdle /\ GlyphIdle /\ InterpIdle /\ GenIdle

\* img_to_ascii
SpecRaster == InitRaster /\ [][RasterNext]_vars

InitGen == GenInit /\ PlayIdle /\ GlyphIdle /\ InterpIdle /\ RasterIdle

\* generate_image
SpecGen == InitGen /\ [][GenNext]_vars

-----------------------------------------------------------------------------
(* Properties of playback *)

HasEvent(kind) == \E i \in 1..Len(out) : out[i][1] = kind

IsFrameEvent(e) == e[1] = "frame"

\* the indices of the frames written so far, in the order written
WrittenFrames ==
    LET w == SelectSeq(out, IsFrameEvent) IN [i \in 1..Len(w) |-> w[i][2]]

\* p passes over n frames: 1..n, p times
PassOrder(n, p) == [i \in 1..(n * p) |-> ((i - 1) % n) + 1]

\* C1: when display_ascii_animation completes (non-empty frame list, no
\* interrupt), it has made exactly one full pass if loop is false, whatever
\* loop_count is, and exactly loop_count passes if loop is true and
\* loop_count > 0; each pass wrote every frame once, in list order.
C1_PassCount ==
    (fn = "ascii" /\ pc = "completed") =>
        /\ ~interrupted
        /\ frames # <<>>
        /\ (~loop => loops_completed = 1)
        /\ (loop /\ loop_count > 0 => loops_completed = loop_count)
        /\ WrittenFrames = PassOrder(Len(frames), loops_completed)

C1_Witness ==
    /\ fn = "ascii" /\ pc = "completed"
    /\ ~loop /\ loop_count = 100 /\ Len(frames) = 2
    /\ WrittenFrames = <<1, 2>>

C1_WitnessLooping ==
    /\ fn = "ascii" /\ pc = "completed"
    /\ loop /\ loop_count = 2 /\ Len(frames) = 2
    /\ WrittenFrames = <<1, 2, 1, 2>>

Indefinite == fn = "ascii" /\ frames # <<>> /\ loop /\ loop_count <= 0

C2_NeverCompletes ==
    Indefinite =>
        /\ pc \notin {"final", "completed", "returned"}
        /\ (pc \in Terminal /\ HasEvent("frame") => pc = "cancelled" /\ interrupted)
        /\ (pc = "raised" => exc \in {"ZeroDivisionError", "KeyboardInterrupt"})

C2_NextPass ==
    (Indefinite /\ ~interrupted') =>
        /\ (pc = "endpass" =>
               pc' = "loophead" /\ loops_completed' = loops_completed + 1)
        /\ (pc = "loophead" => pc' = "clear" /\ frame_num' = 1)

\* C2: display_ascii_animation with a non-empty frame list, loop = true and
\* loop_count <= 0 never reaches the completed state: after every pass it
\* starts the next one, and once frames are being played the only way out
\* is the interrupt's cancelled path.
C2_LoopsUntilCancelled == [] C2_NeverCompletes /\ [][C2_NextPass]_vars

C2_Witness ==
    /\ Indefinite /\ loop_count = 0
    /\ loops_completed >= 2 /\ pc = "write" /\ frame_num = 1

C2_WitnessCancelled ==
    Indefinite /\ loops_completed >= 2 /\ pc = "cancelled"

\* the show-cursor sequence was written after the last hide-cursor sequence
CursorRestored ==
    \A i \in 1..Len(out) :
        out[i][1] = "hide_cursor" =>
            \E j \in (i + 1)..Len(out) : out[j][1] = "show_cursor"

\* C3: in display_ultra_smooth_ascii_animation, once the hide-cursor
\* sequence has been emitted, the show-cursor sequence is emitted before
\* the call ends, on every exit path (completion, cancellation, failure).
C3_CursorRestoredOnEveryExit ==
    (fn = "ultra" /\ pc \in Terminal) => CursorRestored

\* C4: a call of any playback function with an empty frame list does
\* nothing but report that there is nothing to play: no clear, no frame
\* write, no cursor escape, no rasterization, no sleep, no exception, for
\* every fps, loop and loop_count.
C4_EmptyIsNoOp ==
    frames = <<>> =>
        /\ pc \in {"start", "returned"}
        /\ exc = "none"
        /\ out = (IF pc = "returned" THEN <<Ev("msg_no_frames", 0)>> ELSE <<>>)

C4_Witness ==
    /\ frames = <<>> /\ pc = "returned"
    /\ fn = "ultra" /\ fps = 0 /\ loop_count = 100
    /\ out = <<Ev("msg_no_frames", 0)>>

-----------------------------------------------------------------------------
(* Properties of get_brightness_char *)

\* the 0-based position of character c in sequence s
PositionIn(c, s) == (CHOOSE i \in 1..Len(s) : s[i] = c) - 1

\* C8: for every brightness b in 0..255 and each of the three ramps (L = 5
\* for blocks, 10 for ascii, 11 for mixed), get_brightness_char returns the
\* ramp character at index min(b*L // 256, L-1); the index is within 0..L-1
\* and non-decreasing in b.
C8_GlyphIndex ==
    glyph_pc = "done" =>
        LET ramp == IF invert THEN Reverse(RampOf(style)) ELSE RampOf(style)
            L == Len(ramp)
        IN  /\ L = (CASE style = "blocks" -> 5 [] style = "ascii" -> 10 [] OTHER -> 11)
            /\ char_index \in 0..(L - 1)
            /\ char_index = Min2((brightness * L) \div 256, L - 1)
            /\ char_index * 256 <= brightness * L
            /\ brightness * L < (char_index + 1) * 256
            /\ glyph = ramp[char_index + 1]
            /\ \A b2 \in 0..brightness : CharIndex(b2, style, invert) <= char_index

C8_Witness ==
    /\ glyph_pc = "done" /\ brightness = 255 /\ style = "ascii" /\ ~invert
    /\ char_index = 9 /\ glyph = 64

\* C9 as claimed: for every brightness b in 0..255 and every style,
\* get_brightness_char(b, style, invert=true) equals
\* get_brightness_char(255-b, style, invert=false).
C9_InvertIsComplement ==
    (glyph_pc = "done" /\ invert) =>
        glyph = GetBrightnessChar(255 - brightness, style, FALSE)

\* C9 as amended: get_brightness_char(b, style, invert=true) is the
\* character at index L-1-min(b*L // 256, L-1) of the style's ramp; this is
\* get_brightness_char(255-b, style, invert=false) exactly when
\* (b*L mod 256) + L <= 256, and otherwise the ramp character one index
\* above it.
C9_InvertReversesRamp ==
    (glyph_pc = "done" /\ invert) =>
        LET ramp == RampOf(style)
            L == Len(ramp)
            mirrored == (L - 1) - Min2((brightness * L) \div 256, L - 1)
            complement == GetBrightnessChar(255 - brightness, style, FALSE)
        IN  /\ glyph = ramp[mirrored + 1]
            /\ IF ((brightness * L) % 256) + L <= 256
               THEN glyph = complement
               ELSE /\ glyph # complement
                    /\ mirrored = PositionIn(complement, ramp) + 1

C9_Witness ==
    /\ glyph_pc = "done" /\ invert /\ style = "blocks" /\ brightness = 51
    /\ glyph = 9608
    /\ GetBrightnessChar(255 - brightness, style, FALSE) = 9619

-----------------------------------------------------------------------------
(* Properties of create_interpolated_frames *)

\* C5: with n >= 2 keyframes and frames_between = k >= 0 the output has
\* exactly n*(k+1)+1 frames when loop_back is true and (n-1)*(k+1)+1 when
\* it is false.
C5_OutputLength ==
    (interp_pc = "done" /\ Len(poses) >= 2 /\ frames_between >= 0) =>
        Len(all_frames) =
            IF loop_back
            THEN Len(poses) * (frames_between + 1) + 1
            ELSE (Len(poses) - 1) * (frames_between + 1) + 1

C5_Witness ==
    /\ interp_pc = "done" /\ Len(poses) = 3 /\ frames_between = 2 /\ loop_back
    /\ Len(all_frames) = 10

C5_WitnessOpen ==
    /\ interp_pc = "done" /\ Len(poses) = 3 /\ frames_between = 2 /\ ~loop_back
    /\ Len(all_frames) = 7

\* the frame the claim places at position idx (1-based) of the output,
\* before the closing frame: pair p = (idx-1) div (k+1), step j = (idx-1) mod (k+1)
ExpectedFrame(idx) ==
    LET k == frames_between
        n == Len(poses)
        p == ((idx - 1) \div (k + 1)) + 1
        j == (idx - 1) % (k + 1)
        start == poses[p]
        end == IF p < n THEN poses[p + 1] ELSE poses[1]
    IN  IF j = 0 THEN start
        ELSE [kind |-> "blend", a |-> start.a, b |-> end.a, num |-> j, den |-> k + 1]

\* C6: with n >= 2 keyframes the output is, for each pair (k[i], k[i+1]),
\* i = 0..n-2, then (k[n-1], k[0]) when loop_back: the unblended start
\* keyframe, then blend(start, end, j/(frames_between+1)) for
\* j = 1..frames_between in increasing j, every alpha strictly between 0
\* and 1; then one closing frame, k[0] when loop_back and k[n-1] otherwise.
\* In particular interpolate([A,B], 1, false) = [A, blend(A,B,0.5), B].
C6_OutputSequence ==
    (interp_pc = "done" /\ Len(poses) >= 2 /\ frames_between >= 0) =>
        LET n == Len(poses)
            pairs == IF loop_back THEN n ELSE n - 1
            body == pairs * (frames_between + 1)
        IN  /\ Len(all_frames) = body + 1
            /\ \A idx \in 1..body : all_frames[idx] = ExpectedFrame(idx)
            /\ \A idx \in 1..body :
                   all_frames[idx].kind = "blend" =>
                       /\ 0 < all_frames[idx].num
                       /\ all_frames[idx].num < all_frames[idx].den
            /\ all_frames[body + 1] = (IF loop_back THEN poses[1] ELSE poses[n])
            /\ (poses = <<Pose("A"), Pose("B")>> /\ frames_between = 1 /\ ~loop_back =>
                   all_frames = <<Pose("A"),
                                  [kind |-> "blend", a |-> "A", b |-> "B",
                                   num |-> 1, den |-> 2],
                                  Pose("B")>>)

C6_Witness ==
    /\ interp_pc = "done"
    /\ poses = <<Pose("A"), Pose("B")>> /\ frames_between = 1 /\ ~loop_back
    /\ Len(all_frames) = 3
    /\ all_frames[2].kind = "blend" /\ all_frames[2].num = 1 /\ all_frames[2].den = 2

C6_WitnessLoopBack ==
    /\ interp_pc = "done"
    /\ poses = <<Pose("A"), Pose("B"), Pose("C")>> /\ frames_between = 2 /\ loop_back
    /\ all_frames[8] = [kind |-> "blend", a |-> "C", b |-> "A", num |-> 1, den |-> 3]
    /\ all_frames[10] = Pose("A")

\* C7: with fewer than 2 keyframes the input is returned unchanged, for
\* every frames_between and both values of loop_back: nothing is blended
\* and no closing frame is appended.
C7_FewPosesUnchanged ==
    (interp_pc = "done" /\ Len(poses) < 2) =>
        /\ all_frames = poses
        /\ \A i \in 1..Len(all_frames) : all_frames[i].kind = "pose"

C7_Witness ==
    /\ interp_pc = "done" /\ poses = <<Pose("B")>> /\ frames_between = 2 /\ loop_back
    /\ all_frames = <<Pose("B")>>

C7_WitnessEmpty ==
    interp_pc = "done" /\ poses = <<>> /\ all_frames = <<>>

-----------------------------------------------------------------------------
(* Properties of img_to_ascii *)

\* the image source can be obtained and decoded
SourceIsValid == rargs.img_source \in {"path", "image"}

\* C10: img_to_ascii called with ascii_width <= 0, or with inputs whose
\* computed target height is <= 0, fails with an explicit invalid-dimensions
\* condition: it returns neither an empty string nor any rendering, and no
\* exception leaves the call.
C10_InvalidDimensionsReported ==
    (/\ SourceIsValid
     /\ raster_pc \in {"resize", "render", "returned", "raised"}
     /\ (ascii_width <= 0 \/ ascii_height <= 0)) =>
        /\ raster_pc # "raised"
        /\ raster_exc = "none"
        /\ raster_pc \notin {"render"}
        /\ (raster_pc = "returned" => ascii_ret.kind = "error")

-----------------------------------------------------------------------------
(* Properties of playback: frame rate, interrupt, order and timing *)

\* the inter-frame sleeps performed so far: the sleep events that directly
\* follow a written frame
FrameSleeps ==
    {i \in 2..Len(out) : out[i][1] = "sleep" /\ out[i - 1][1] = "frame"}

\* C11: a playback function called with a non-empty frame list and
\* fps <= 0 reports an explicit failure before any frame is written: no
\* frame is written, no inter-frame sleep is performed, and no exception
\* (ZeroDivisionError from 1/fps, ValueError from the sleep) leaves the call.
C11_NonPositiveFpsRejected ==
    (fn \in Functions /\ frames # <<>> /\ fps <= 0) =>
        /\ ~HasEvent("frame")
        /\ FrameSleeps = {}
        /\ exc \notin {"ZeroDivisionError", "ValueError"}
        /\ pc # "completed"

\* the state of a call that its except KeyboardInterrupt clause has ended
C12_CancelledState ==
    pc = "cancelled" =>
        /\ HasTry(fn) /\ interrupted
        /\ exc = "none"
        /\ out[Len(out)] = Ev("msg_interrupted", 0)
        /\ ~HasEvent("msg_complete")
        /\ loops_completed * Len(frames) <= Len(WrittenFrames)
        /\ Len(WrittenFrames) <= (loops_completed + 1) * Len(frames)

\* an interrupt delivered inside the try block goes to the except clause
C12_InterruptCaught ==
    (~interrupted /\ interrupted' /\ HasTry(fn) /\ pc \in TryRegion) =>
        pc' = "handler" /\ exc' = "none"

\* C12 (as amended): an interrupt delivered while display_ascii_animation,
\* display_smooth_ascii_animation or display_ultra_smooth_ascii_animation
\* is inside its try block ends the call normally, without propagating; the
\* last thing written is the fixed message "Animation interrupted by
\* user.", which carries no loop count, and no completion message is
\* written; the passes finished before the interrupt number
\* loops_completed or loops_completed + 1 (the counter is incremented
\* only after the last sleep of a pass).
C12_InterruptEndsNormally == [] C12_CancelledState /\ [][C12_InterruptCaught]_vars

C12_Witness ==
    /\ pc = "cancelled" /\ fn = "smooth" /\ loops_completed = 1
    /\ WrittenFrames = <<1, 2, 1>>
    /\ out[Len(out)] = Ev("msg_interrupted", 0)

\* C12 (as stated): when an interrupt cancels a running playback, the call
\* ends normally and its final report states the number of loops completed
\* so far.  (An event's second component is 0 where the text written has
\* no number in it.)
C12_ReportsLoopsCompleted ==
    pc = "cancelled" =>
        /\ exc = "none"
        /\ out[Len(out)] = Ev("msg_interrupted", loops_completed)

\* 1/fps seconds, in milliseconds
IntervalMs == 1000 \div fps

\* C13 (as amended): for fps > 0, the sleep after each written frame is
\* max(1/fps, 10 ms) in display_ascii_animation only; in
\* display_smooth_ascii_animation, display_ultra_smooth_ascii_animation and
\* display_image_animation it is exactly 1/fps, which is shorter than
\* 10 ms when fps > 100.
C13_SleepPerFunction ==
    fps > 0 =>
        \A i \in FrameSleeps :
            out[i][2] = IF fn = "ascii"
                        THEN (IF IntervalMs >= 10 THEN IntervalMs ELSE 10)
                        ELSE IntervalMs

C13_Witness ==
    /\ fn = "ultra" /\ fps = 200 /\ pc = "completed"
    /\ FrameSleeps # {}
    /\ \A i \in FrameSleeps : out[i][2] = 5

C13_WitnessFloor ==
    /\ fn = "ascii" /\ fps = 200 /\ pc = "completed"
    /\ FrameSleeps # {}
    /\ \A i \in FrameSleeps : out[i][2] = 10

\* C13 (as stated): in every playback function, for every fps > 0, the
\* sleep after each written frame is max(1/fps, 10 ms), so no inter-frame
\* sleep is shorter than 10 ms.
C13_SleepFlooredEverywhere ==
    fps > 0 =>
        \A i \in FrameSleeps :
            /\ out[i][2] = (IF IntervalMs >= 10 THEN IntervalMs ELSE 10)
            /\ out[i][2] >= 10

-----------------------------------------------------------------------------
(* Properties of img_to_ascii: height, rendering, unreadable sources *)

\* the number of rows of the text returned
Rows == Cardinality({i \in 1..Len(ascii_ret.text) : ascii_ret.text[i][1] = "newline"})

\* ascii_width * original_height / original_width * 0.5 as the fraction
\* HeightNum / HeightDen
HeightNum == ascii_width * rargs.orig_height

HeightDen == 2 * rargs.orig_width

\* HeightNum / HeightDen rounded to the nearest integer, halves to the even
\* neighbour (Python's round)
RoundedHeight ==
    LET q == HeightNum \div HeightDen
        r == HeightNum % HeightDen
    IN  IF 2 * r > HeightDen \/ (2 * r = HeightDen /\ q % 2 = 1) THEN q + 1 ELSE q

\* C14 (as amended): with preserve_aspect_ratio true and a readable source,
\* img_to_ascii produces exactly int(ascii_width * original_height /
\* original_width * 0.5) rows, the value truncated toward zero and not
\* rounded, whatever ascii_height the caller supplied, whenever
\* ascii_width >= 1 and that value is at least 1; otherwise it produces no
\* rows and the call ends with the ValueError of the resize.
C14_RowsTruncated ==
    (SourceIsValid /\ rargs.preserve_aspect_ratio) =>
        /\ (raster_pc = "returned" =>
               /\ ascii_ret.kind = "ascii"
               /\ Rows >= 1
               /\ Rows * HeightDen <= HeightNum
               /\ HeightNum < (Rows + 1) * HeightDen)
        /\ (raster_pc = "raised" =>
               /\ raster_exc = "ValueError"
               /\ (ascii_width < 1 \/ HeightNum < HeightDen))

C14_Witness ==
    /\ raster_pc = "returned" /\ rargs.preserve_aspect_ratio
    /\ rargs.orig_width = 1 /\ rargs.orig_height = 1 /\ ascii_width = 3
    /\ Rows = 1

C14_WitnessTall ==
    /\ raster_pc = "returned" /\ rargs.preserve_aspect_ratio
    /\ rargs.orig_width = 2 /\ rargs.orig_height = 3 /\ ascii_width = 3
    /\ Rows = 2

\* C14 (as stated): with preserve_aspect_ratio true, the text img_to_ascii
\* returns has exactly round(ascii_width * original_height /
\* original_width * 0.5) rows.
C14_RowsRounded ==
    (/\ SourceIsValid /\ rargs.preserve_aspect_ratio
     /\ raster_pc = "returned" /\ ascii_ret.kind = "ascii") =>
        Rows = RoundedHeight

\* a 2x2 solid white image rendered at ascii_width 2, uncoloured, ascii
\* ramp, brightness_boost 1.0, every other option at its default
WhiteSquareCall ==
    /\ SourceIsValid
    /\ rargs.orig_width = 2 /\ rargs.orig_height = 2 /\ rargs.gray = 255
    /\ ascii_width = 2
    /\ ~rargs.colored /\ rargs.char_style = "ascii" /\ ~rargs.invert_chars
    /\ rargs.brightness_boost = 10 /\ rargs.contrast_boost = 12
    /\ rargs.preserve_aspect_ratio

\* the brightest glyph of the ascii ramp
BrightestAscii == Tok("char", AsciiChars[Len(AsciiChars)])

\* C15 (as amended): a 2x2 solid white image converted with ascii_width 2,
\* colored false, char_style "ascii", brightness_boost 1.0 and the other
\* options at their defaults yields exactly one row (the aspect-ratio
\* compensation gives int(2 * 2/2 * 0.5) = 1): the ascii ramp's brightest
\* glyph twice, followed by a newline.
C15_WhiteSquareOneRow ==
    (WhiteSquareCall /\ raster_pc \in {"returned", "raised"}) =>
        /\ raster_pc = "returned"
        /\ ascii_ret.kind = "ascii"
        /\ ascii_ret.text = <<BrightestAscii, BrightestAscii, Tok("newline", 0)>>

C15_Witness ==
    /\ WhiteSquareCall /\ raster_pc = "returned"
    /\ Rows = 1 /\ Len(ascii_ret.text) = 3
    /\ ascii_ret.text[1] = Tok("char", 64)

\* C15 (as stated): the same call yields exactly two rows, each the
\* brightest glyph twice, separated by a newline.
C15_WhiteSquareTwoRows ==
    (WhiteSquareCall /\ raster_pc = "returned") =>
        \/ ascii_ret.text = <<BrightestAscii, BrightestAscii, Tok("newline", 0),
                              BrightestAscii, BrightestAscii>>
        \/ ascii_ret.text = <<BrightestAscii, BrightestAscii, Tok("newline", 0),
                              BrightestAscii, BrightestAscii, Tok("newline", 0)>>

\* C16: a call of img_to_ascii whose image source cannot be obtained or
\* decoded (a path that does not open, a file that is not a decodable
\* image, a value that is neither a path nor an image) ends by returning an
\* explicit failure with a message, and no exception leaves the call,
\* whichever step is the first to touch the pixel data.
C16_UnreadableSourceReported ==
    (~SourceIsValid /\ raster_pc \in {"returned", "raised"}) =>
        /\ raster_pc = "returned"
        /\ raster_exc = "none"
        /\ ascii_ret.kind = "error"
        /\ ascii_ret.text # <<>>

-----------------------------------------------------------------------------
(* Properties of generate_image *)

\* an earlier call with the same (prompt, model) and use_cache = true
\* returned an image
EarlierCached(i) ==
    \E j \in 1..(i - 1) :
        /\ calls[j].prompt = calls[i].prompt
        /\ calls[j].model = calls[i].model
        /\ calls[j].use_cache
        /\ calls[j].returned = "image"

\* C17: starting from an empty cache that nothing else modifies, a call of
\* generate_image issues an HTTP generation request exactly when use_cache
\* is false or no earlier call with the same (prompt, model) and
\* use_cache = true has returned an image; a call with use_cache = false
\* neither reads nor writes the cache; a generation that returns no image
\* stores no cache entry.
C17_RequestExactlyOnMiss ==
    \A i \in 1..Len(calls) :
        /\ calls[i].requested <=> (~calls[i].use_cache \/ ~EarlierCached(i))
        /\ (~calls[i].use_cache => ~calls[i].from_cache /\ ~calls[i].stored)
        /\ (calls[i].returned # "image" => ~calls[i].stored)
        /\ (calls[i].from_cache => ~calls[i].requested)

\* how many of the events written so far belong to the frame loop: all but
\* what the completion path or the except clause wrote at the end
PlayedLen ==
    Len(out) - (CASE pc = "completed" -> Len(FinalOutput)
                  [] pc = "cancelled" -> Len(HandlerOutput)
                  [] OTHER -> 0)

\* C18: during any playback the frames written so far are a prefix of the
\* frame list repeated pass after pass: no frame is skipped or reordered,
\* and a pass starts only after the previous one wrote its last frame; for
\* each frame the steps come in the order clear, write, sleep (the clear
\* is absent in display_image_animation, which never clears).
C18_FramesInOrder ==
    /\ \A i \in 1..Len(WrittenFrames) :
          WrittenFrames[i] = ((i - 1) % Len(frames)) + 1
    /\ \A i \in 1..PlayedLen :
          /\ (out[i][1] = "frame" /\ fn # "image") => (i > 1 /\ out[i - 1][1] = "clear")
          /\ (out[i][1] = "frame" /\ i < PlayedLen) => out[i + 1][1] = "sleep"
          /\ (out[i][1] = "clear" /\ i < PlayedLen) => out[i + 1][1] = "frame"
          /\ (out[i][1] = "clear") => fn # "image"
          /\ (out[i][1] = "sleep" /\ i < PlayedLen
                /\ \E j \in 1..i : out[j][1] = "frame") =>
                 out[i + 1][1] = IF fn = "image" THEN "frame" ELSE "clear"

C18_Witness ==
    /\ fn = "ultra" /\ pc = "completed" /\ Len(frames) = 2
    /\ WrittenFrames = <<1, 2, 1, 2>>
    /\ Len(SelectSeq(out, LAMBDA e : e[1] = "clear")) = 5

C18_WitnessMidPass ==
    /\ fn = "ascii" /\ pc = "sleep" /\ Len(frames) = 2
    /\ WrittenFrames = <<1, 2, 1>>

\* the per-frame clears performed so far
ClearsPerformed == Cardinality({i \in 1..PlayedLen : out[i][1] = "clear"})

\* C19 (as amended): the interrupt is not held back to a frame boundary:
\* it can take effect anywhere inside the try block, also between a
\* frame's clear and its write.  In a cancelled call at most one frame, the
\* last one cleared, has been cleared without being written, and the
\* except clause then writes the interrupted message (after clearing the
\* screen again, except in display_ascii_animation with clear_terminal).
C19_InterruptAnywhere ==
    /\ (HasTry(fn) /\ ~interrupted /\ pc = "write") => ENABLED Interrupt
    /\ (pc \in {"handler", "cancelled"}) =>
          ClearsPerformed - Len(WrittenFrames) \in {0, 1}
    /\ (pc = "cancelled") => out[Len(out)][1] = "msg_interrupted"

C19_Witness ==
    /\ fn = "ultra" /\ pc = "cancelled"
    /\ WrittenFrames = <<1, 2, 1>>
    /\ ClearsPerformed = 4

\* C19 (as stated): an interrupt takes effect only at a frame boundary, so
\* in every cancelled state each frame whose clear was performed has also
\* been written.
C19_ClearedFramesWritten ==
    (pc \in {"handler", "cancelled"}) => ClearsPerformed = Len(WrittenFrames)

\* the frame interval of the function called, in ms
NominalMs ==
    IF fn = "ascii" THEN (IF IntervalMs >= 10 THEN IntervalMs ELSE 10) ELSE IntervalMs

\* C20 (as amended): playback keeps no wall-clock schedule.  For fps > 0
\* the sleep after a frame is the full frame interval whatever time d the
\* frame's clear and write took, so, every frame taking d, frame m starts
\* exactly (m - 1) * (interval + d) after the first: the delays add up.
C20_DelaysAccumulate ==
    fps > 0 =>
        /\ \A i \in FrameSleeps : out[i][2] = NominalMs
        /\ \A m \in 1..Len(starts) :
              starts[m] = starts[1] + (m - 1) * (NominalMs + render_ms)

C20_Witness ==
    /\ fn = "smooth" /\ fps = 5 /\ render_ms = 20
    /\ Len(starts) = 4
    /\ starts[4] - starts[1] = 660

\* C20 (as stated): when a frame's clear and write take d > 0, the sleep
\* that follows is shortened by d (down to zero), so the start of frame m
\* is never later than the playback start plus m intervals by more than
\* one slow frame's duration.
C20_NoBacklog ==
    fps > 0 =>
        /\ \A i \in FrameSleeps :
              out[i][2] = (IF NominalMs >= render_ms THEN NominalMs - render_ms ELSE 0)
        /\ \A m \in 1..Len(starts) :
              starts[m] <= starts[1] + (m - 1) * NominalMs + render_ms

\* the two playbacks whose loop is for loop_num in range(loop_count)
RangeLoop == fn \in {"smooth", "ultra"}

\* max(loop_count, 0)
PassesToPlay == IF loop_count > 0 THEN loop_count ELSE 0

\* the last n events written
LastEvents(n) == SubSeq(out, Len(out) - n + 1, Len(out))

\* in no state has a range loop gone beyond max(loop_count, 0) passes; a
\* completed call has played exactly that many, then cleared the screen and
\* named loop_count in its completion message
C21_PassesPlayed ==
    RangeLoop =>
        /\ loops_completed <= PassesToPlay
        /\ Len(WrittenFrames) <= Len(frames) * PassesToPlay
        /\ (pc = "completed" =>
               /\ ~interrupted
               /\ loops_completed = PassesToPlay
               /\ WrittenFrames = PassOrder(Len(frames), PassesToPlay)
               /\ LastEvents(IF fn = "ultra" THEN 3 ELSE 2) =
                    (IF fn = "ultra"
                     THEN <<Ev("clear", 0), Ev("show_cursor", 0),
                            Ev("msg_complete", loop_count)>>
                     ELSE <<Ev("clear", 0), Ev("msg_complete", loop_count)>>))
        /\ (pc \in Terminal /\ ~interrupted /\ frames # <<>> /\ fps > 0) =>
               pc = "completed"

\* at the head of the range loop an uninterrupted call starts a pass while
\* passes remain and otherwise goes on to the final clear: it never waits
\* and has no mode that loops without end
C21_LoopHead ==
    (RangeLoop /\ pc = "loophead" /\ ~interrupted') =>
        /\ (loops_completed < loop_count => pc' = "clear" /\ frame_num' = 1)
        /\ (loops_completed >= loop_count => pc' = "final")

\* C21: display_smooth_ascii_animation and
\* display_ultra_smooth_ascii_animation, when not interrupted (and not
\* ended by the exceptions of a non-positive fps), play exactly
\* max(loop_count, 0) full passes: with loop_count <= 0 and a non-empty
\* frame list they write no frame, yet run the final clear and print the
\* completion message naming loop_count loops; they have no
\* indefinite-loop mode.
C21_RangeLoopPasses == [] C21_PassesPlayed /\ [][C21_LoopHead]_vars

C21_Witness ==
    /\ fn = "smooth" /\ pc = "completed" /\ loop_count = -1
    /\ Len(frames) = 2 /\ fps = 5
    /\ WrittenFrames = <<>>
    /\ out[Len(out)] = Ev("msg_complete", -1)

C21_WitnessTwoPasses ==
    /\ fn = "ultra" /\ pc = "completed" /\ loop_count = 2
    /\ WrittenFrames = <<1, 2, 1, 2>>

====
